---- MODULE Spec2Model ----
(***************************************************************************)
(* A model of src/App.tsx, the GPA calculator: the grade table and the     *)
(* GPA computation (in IEEE-754 double arithmetic, as JavaScript computes  *)
(* it), the Year/Semester/Course tree with its id generator, the profile   *)
(* editor, and the IndexedDB persistence of both.                          *)
(*                                                                         *)
(* Text values (ids, names, profile fields) are sequences of one-character *)
(* strings, so that toString, parseInt and the key order of the store are  *)
(* computed and not assumed.  Grades are the keys of the grade table.      *)
(***************************************************************************)
EXTENDS Integers, Sequences, FiniteSets, TLC

(***************************************************************************)
(* Natural numbers of arbitrary size: little-endian sequences of limbs in  *)
(* base 2^15, without leading zero limbs; <<>> is zero.                    *)
(***************************************************************************)
LimbBits == 15
Base == 2^LimbBits

RECURSIVE BNorm(_)
BNorm(x) ==
  IF x = <<>> THEN <<>>
  ELSE IF x[Len(x)] = 0 THEN BNorm(SubSeq(x, 1, Len(x) - 1)) ELSE x

RECURSIVE BAddC(_, _, _)
BAddC(x, y, c) ==
  IF x = <<>> /\ y = <<>> THEN (IF c = 0 THEN <<>> ELSE <<c>>)
  ELSE LET a == IF x = <<>> THEN 0 ELSE Head(x)
           b == IF y = <<>> THEN 0 ELSE Head(y)
           s == a + b + c
       IN  <<s % Base>> \o BAddC(IF x = <<>> THEN <<>> ELSE Tail(x),
                                 IF y = <<>> THEN <<>> ELSE Tail(y),
                                 s \div Base)

BAdd(x, y) == BAddC(x, y, 0)

RECURSIVE BSubB(_, _, _)
BSubB(x, y, b) ==
  IF x = <<>> THEN <<>>
  ELSE LET yb == IF y = <<>> THEN 0 ELSE Head(y)
           d  == Head(x) - yb - b
       IN  <<d % Base>> \o BSubB(Tail(x),
                                 IF y = <<>> THEN <<>> ELSE Tail(y),
                                 IF d < 0 THEN 1 ELSE 0)

\* x - y for x >= y
BSub(x, y) == BNorm(BSubB(x, y, 0))

RECURSIVE BCmpAt(_, _, _)
BCmpAt(x, y, i) ==
  IF i = 0 THEN 0
  ELSE IF x[i] > y[i] THEN 1
  ELSE IF x[i] < y[i] THEN -1
  ELSE BCmpAt(x, y, i - 1)

\* -1, 0 or 1 as x < y, x = y, x > y
BCmp(x, y) ==
  IF Len(x) > Len(y) THEN 1
  ELSE IF Len(x) < Len(y) THEN -1
  ELSE BCmpAt(x, y, Len(x))

RECURSIVE BMulC(_, _, _)
BMulC(x, k, c) ==
  IF x = <<>> THEN (IF c = 0 THEN <<>> ELSE <<c>>)
  ELSE LET p == Head(x) * k + c
       IN  <<p % Base>> \o BMulC(Tail(x), k, p \div Base)

\* x * k for 0 <= k <= Base
BMulSmall(x, k) == BNorm(BMulC(x, k, 0))

RECURSIVE BDivAt(_, _, _, _)
BDivAt(x, k, i, r) ==
  IF i = 0 THEN [q |-> <<>>, r |-> r]
  ELSE LET cur  == r * Base + x[i]
           rest == BDivAt(x, k, i - 1, cur % k)
       IN  [q |-> rest.q \o <<cur \div k>>, r |-> rest.r]

\* quotient q and remainder r of x by k, 0 < k <= Base
BDivMod(x, k) ==
  LET d == BDivAt(x, k, Len(x), 0) IN [q |-> BNorm(d.q), r |-> d.r]

RECURSIVE IntBits(_)
IntBits(n) == IF n = 0 THEN 0 ELSE 1 + IntBits(n \div 2)

BitLen(x) ==
  IF x = <<>> THEN 0 ELSE LimbBits * (Len(x) - 1) + IntBits(x[Len(x)])

Zeros(n) == [i \in 1..n |-> 0]

ShiftLeft(x, d) ==
  IF x = <<>> THEN <<>>
  ELSE Zeros(d \div LimbBits) \o BMulSmall(x, 2^(d % LimbBits))

ShiftRight(x, d) ==
  LET drop == d \div LimbBits IN
  IF drop >= Len(x) THEN <<>>
  ELSE BDivMod(SubSeq(x, drop + 1, Len(x)), 2^(d % LimbBits)).q

RECURSIVE IntToBig(_)
IntToBig(n) == IF n = 0 THEN <<>> ELSE <<n % Base>> \o IntToBig(n \div Base)

RECURSIVE BigToInt(_)
BigToInt(x) == IF x = <<>> THEN 0 ELSE Head(x) + Base * BigToInt(Tail(x))

Abs(n) == IF n < 0 THEN -n ELSE n

(***************************************************************************)
(* JavaScript numbers.  A finite double is [neg, mag]: the value           *)
(* (-1)^neg * mag * 2^-Scale, where mag has at most 53 significant bits.   *)
(* Every double that the GPA computation meets (magnitude 0 or in          *)
(* [2^-67, 2^15)) is represented exactly.  Zero is [neg |-> FALSE, <<>>].  *)
(***************************************************************************)
MantBits == 53
Scale == 120

\* round-to-nearest, ties-to-even, of the real number x (+ a nonzero
\* fraction below the unit when sticky) to 53 significant bits
RoundToDouble(x, sticky) ==
  LET d == BitLen(x) - MantBits IN
  IF d <= 0 THEN x
  ELSE LET q    == ShiftRight(x, d)
           low  == BSub(x, ShiftLeft(q, d))
           half == ShiftLeft(<<1>>, d - 1)
           c    == BCmp(low, half)
           up   == c > 0 \/ (c = 0 /\ (sticky \/ q[1] % 2 = 1))
       IN  ShiftLeft(IF up THEN BAdd(q, <<1>>) ELSE q, d)

MkNum(neg, mag) == [neg |-> neg /\ mag # <<>>, mag |-> mag]

\* the double of an integer n, |n| < 2^15
NumOfInt(n) == MkNum(n < 0, ShiftLeft(IntToBig(Abs(n)), Scale))

\* a * c, c an integer-valued double with |c| <= 2^15
NumTimesInt(a, c) ==
  MkNum(a.neg # (c < 0), RoundToDouble(BMulSmall(a.mag, Abs(c)), FALSE))

\* a + b
NumPlus(a, b) ==
  IF a.neg = b.neg
  THEN MkNum(a.neg, RoundToDouble(BAdd(a.mag, b.mag), FALSE))
  ELSE IF BCmp(a.mag, b.mag) >= 0
  THEN MkNum(a.neg, RoundToDouble(BSub(a.mag, b.mag), FALSE))
  ELSE MkNum(b.neg, RoundToDouble(BSub(b.mag, a.mag), FALSE))

\* a / n, n an integer-valued double with 0 < n <= 2^15
NumOverInt(a, n) ==
  LET d == BDivMod(a.mag, n)
  IN  MkNum(a.neg, RoundToDouble(d.q, d.r # 0))

\* a decimal literal with one fractional digit, "t/10", read as the nearest
\* double (the value of the source literals 4.0, 3.7, ...)
Literal(tenths) == NumOverInt(NumOfInt(tenths), 10)

\* parseFloat(a.toFixed(2)), as a number of hundredths: toFixed(2) takes the
\* integer n with n/100 nearest to |a|, the larger n when two are equally
\* near, and parseFloat reads the digits it printed back
toFixed2(a) ==
  LET n == BigToInt(ShiftRight(BAdd(BMulSmall(a.mag, 100),
                                    ShiftLeft(<<1>>, Scale - 1)), Scale))
  IN  IF a.neg THEN -n ELSE n

(***************************************************************************)
(* The grade table and the GPA computation.                                *)
(***************************************************************************)
GradeTenths ==
  [g \in {"A", "A-", "B+", "B", "B-", "C+", "C", "C-", "D+", "D", "D-", "F"} |->
     CASE g = "A"  -> 40 [] g = "A-" -> 37
       [] g = "B+" -> 33 [] g = "B"  -> 30 [] g = "B-" -> 27
       [] g = "C+" -> 23 [] g = "C"  -> 20 [] g = "C-" -> 17
       [] g = "D+" -> 13 [] g = "D"  -> 10 [] g = "D-" -> 7
       [] g = "F"  -> 0]

Grades == DOMAIN GradeTenths

gradePoints == [g \in Grades |-> Literal(GradeTenths[g])]

RECURSIVE SumPoints(_, _)
SumPoints(courses, i) ==
  IF i = 0 THEN NumOfInt(0)
  ELSE NumPlus(SumPoints(courses, i - 1),
               NumTimesInt(gradePoints[courses[i].grade], courses[i].credits))

RECURSIVE SumCredits(_, _)
SumCredits(courses, i) ==
  IF i = 0 THEN 0 ELSE SumCredits(courses, i - 1) + courses[i].credits

\* calculateGPA with the test "totalCredits >= 0": a list without credits is
\* divided by zero, and the NaN or Infinity that gives is written -1
calculateGPA_NoGuard(courses) ==
  LET totalPoints  == SumPoints(courses, Len(courses))
      totalCredits == SumCredits(courses, Len(courses))
  IN  IF totalCredits > 0
      THEN toFixed2(NumOverInt(totalPoints, totalCredits))
      ELSE IF totalCredits = 0 THEN -1 ELSE 0

\* calculateGPA dividing by the number of courses, not by their credits
calculateGPA_ByCount(courses) ==
  LET totalPoints  == SumPoints(courses, Len(courses))
      totalCredits == SumCredits(courses, Len(courses))
  IN  IF totalCredits > 0
      THEN toFixed2(NumOverInt(totalPoints, Len(courses)))
      ELSE 0

\* the GPA of a course list, in hundredths (363 is 3.63)
calculateGPA(courses) ==
  LET totalPoints  == SumPoints(courses, Len(courses))
      totalCredits == SumCredits(courses, Len(courses))
  IN  IF totalCredits > 0
      THEN toFixed2(NumOverInt(totalPoints, totalCredits))
      ELSE 0

(***************************************************************************)
(* Text: a string is a sequence of one-character strings.                  *)
(***************************************************************************)
DigitChars == <<"0", "1", "2", "3", "4", "5", "6", "7", "8", "9">>

IsDigit(c) == \E d \in 1..10 : DigitChars[d] = c

DigitOf(c) == (CHOOSE d \in 1..10 : DigitChars[d] = c) - 1

\* Number.prototype.toString of an integer
RECURSIVE NatToString(_)
NatToString(n) ==
  IF n < 10 THEN <<DigitChars[n + 1]>>
  ELSE NatToString(n \div 10) \o <<DigitChars[(n % 10) + 1]>>

toString(n) == IF n < 0 THEN <<"-">> \o NatToString(-n) ELSE NatToString(n)

RECURSIVE SkipSpaces(_)
SkipSpaces(s) ==
  IF s # <<>> /\ Head(s) = " " THEN SkipSpaces(Tail(s)) ELSE s

RECURSIVE LeadingDigits(_)
LeadingDigits(s) ==
  IF s # <<>> /\ IsDigit(Head(s)) THEN <<Head(s)>> \o LeadingDigits(Tail(s))
  ELSE <<>>

RECURSIVE DigitsValue(_, _)
DigitsValue(ds, acc) ==
  IF ds = <<>> THEN acc ELSE DigitsValue(Tail(ds), 10 * acc + DigitOf(Head(ds)))

\* parseInt(s): leading white space, an optional sign, then the longest run
\* of decimal digits; NaN when there is no digit.  [nan, val]
parseInt(s) ==
  LET t    == SkipSpaces(s)
      neg  == t # <<>> /\ Head(t) = "-"
      body == IF t # <<>> /\ Head(t) \in {"-", "+"} THEN Tail(t) ELSE t
      ds   == LeadingDigits(body)
  IN  IF ds = <<>> THEN [nan |-> TRUE, val |-> 0]
      ELSE [nan |-> FALSE,
            val |-> IF neg THEN -DigitsValue(ds, 0) ELSE DigitsValue(ds, 0)]

\* UTF-16 code units of the characters that occur in record keys
CharCode(c) == IF c = "-" THEN 45 ELSE IF IsDigit(c) THEN 48 + DigitOf(c) ELSE 128

\* the order of string keys in an object store: by code unit, a proper
\* prefix first
RECURSIVE KeyLess(_, _)
KeyLess(a, b) ==
  IF b = <<>> THEN FALSE
  ELSE IF a = <<>> THEN TRUE
  ELSE IF CharCode(Head(a)) < CharCode(Head(b)) THEN TRUE
  ELSE IF CharCode(Head(a)) > CharCode(Head(b)) THEN FALSE
  ELSE KeyLess(Tail(a), Tail(b))

Range(f) == {f[i] : i \in DOMAIN f}

RECURSIVE Concat(_)
\* Array.prototype.flat of a sequence of sequences
Concat(ss) == IF ss = <<>> THEN <<>> ELSE Head(ss) \o Concat(Tail(ss))

RECURSIVE MaxOf(_)
\* Math.max(...xs) of a non-empty sequence of integers
MaxOf(xs) ==
  IF Len(xs) = 1 THEN xs[1]
  ELSE LET m == MaxOf(Tail(xs)) IN IF Head(xs) > m THEN Head(xs) ELSE m

(***************************************************************************)
(* The Year / Semester / Course tree and its pure transforms (the bodies   *)
(* of the setYears updaters).                                              *)
(***************************************************************************)
SemesterText == <<"S", "e", "m", "e", "s", "t", "e", "r", " ">>
YearText     == <<"Y", "e", "a", "r", " ">>

NewYear(newYearId, count) ==
  [id |-> newYearId,
   name |-> YearText \o toString(count + 1),
   semesters |-> <<[id |-> newYearId \o <<"-", "1">>,
                    name |-> SemesterText \o <<"1">>, courses |-> <<>>],
                   [id |-> newYearId \o <<"-", "2">>,
                    name |-> SemesterText \o <<"2">>, courses |-> <<>>]>>]

\* a seed with one semester
initialYear_OneSemester ==
  [id |-> <<"1">>,
   name |-> YearText \o <<"1">>,
   semesters |-> <<[id |-> <<"1", "-", "1">>,
                    name |-> SemesterText \o <<"1">>, courses |-> <<>>]>>]

initialYear ==
  [id |-> <<"1">>,
   name |-> YearText \o <<"1">>,
   semesters |-> <<[id |-> <<"1", "-", "1">>,
                    name |-> SemesterText \o <<"1">>, courses |-> <<>>],
                   [id |-> <<"1", "-", "2">>,
                    name |-> SemesterText \o <<"2">>, courses |-> <<>>]>>]

\* a new course with no grade selected
NewCourse_Ungraded(newId) == [id |-> newId, name |-> <<>>, grade |-> "", credits |-> 3]

NewCourse(newId) == [id |-> newId, name |-> <<>>, grade |-> "A", credits |-> 3]

\* generateId on a counter value n: the new counter and the id returned
generateId(n) == [next |-> n + 1, id |-> toString(n + 1)]

\* addYear's updater: [years, next]
addYearUpdate(prevYears, n) ==
  LET g == generateId(n)
  IN  [years |-> Append(prevYears, NewYear(g.id, Len(prevYears))),
       next  |-> g.next]

\* a filter with the test inverted
deleteYearUpdate_Inverted(prevYears, yearId) ==
  LET Keep(year) == year.id = yearId IN SelectSeq(prevYears, Keep)

\* deleteYear's updater
deleteYearUpdate(prevYears, yearId) ==
  LET Keep(year) == year.id # yearId IN SelectSeq(prevYears, Keep)

\* an addSemester that numbers the new semester by the count before it
addSemesterUpdate_Zeroth(prevYears, yearId, n) ==
  [years |-> [i \in 1..Len(prevYears) |->
                IF prevYears[i].id = yearId
                THEN [prevYears[i] EXCEPT !.semesters =
                        Append(@, [id |-> generateId(n).id,
                                   name |-> SemesterText \o toString(Len(@)),
                                   courses |-> <<>>])]
                ELSE prevYears[i]],
   next  |-> generateId(n).next]

\* addSemester's updater: the map calls generateId once for each year it
\* matches, left to right.  [years, next]
RECURSIVE addSemesterUpdate(_, _, _)
addSemesterUpdate(prevYears, yearId, n) ==
  IF prevYears = <<>> THEN [years |-> <<>>, next |-> n]
  ELSE LET year == Head(prevYears) IN
       IF year.id = yearId
       THEN LET g    == generateId(n)
                rest == addSemesterUpdate(Tail(prevYears), yearId, g.next)
                sem  == [id |-> g.id,
                         name |-> SemesterText \o toString(Len(year.semesters) + 1),
                         courses |-> <<>>]
            IN  [years |-> <<[year EXCEPT !.semesters = Append(@, sem)]>> \o rest.years,
                 next  |-> rest.next]
       ELSE LET rest == addSemesterUpdate(Tail(prevYears), yearId, n)
            IN  [years |-> <<year>> \o rest.years, next |-> rest.next]

\* deleteSemester's updater
deleteSemesterUpdate(prevYears, yearId, semesterId) ==
  LET Keep(semester) == semester.id # semesterId IN
  [i \in 1..Len(prevYears) |->
     IF prevYears[i].id = yearId
     THEN [prevYears[i] EXCEPT !.semesters = SelectSeq(@, Keep)]
     ELSE prevYears[i]]

\* addCourse's updater: generateId is called once for each matching
\* semester of each matching year, in order.  [semesters, next], [years, next]
RECURSIVE addCourseSemesters(_, _, _)
addCourseSemesters(semesters, semesterId, n) ==
  IF semesters = <<>> THEN [semesters |-> <<>>, next |-> n]
  ELSE LET semester == Head(semesters) IN
       IF semester.id = semesterId
       THEN LET g    == generateId(n)
                rest == addCourseSemesters(Tail(semesters), semesterId, g.next)
            IN  [semesters |-> <<[semester EXCEPT !.courses = Append(@, NewCourse(g.id))]>>
                                 \o rest.semesters,
                 next |-> rest.next]
       ELSE LET rest == addCourseSemesters(Tail(semesters), semesterId, n)
            IN  [semesters |-> <<semester>> \o rest.semesters, next |-> rest.next]

RECURSIVE addCourseUpdate(_, _, _, _)
addCourseUpdate(prevYears, yearId, semesterId, n) ==
  IF prevYears = <<>> THEN [years |-> <<>>, next |-> n]
  ELSE LET year == Head(prevYears) IN
       IF year.id = yearId
       THEN LET s    == addCourseSemesters(year.semesters, semesterId, n)
                rest == addCourseUpdate(Tail(prevYears), yearId, semesterId, s.next)
            IN  [years |-> <<[year EXCEPT !.semesters = s.semesters]>> \o rest.years,
                 next  |-> rest.next]
       ELSE LET rest == addCourseUpdate(Tail(prevYears), yearId, semesterId, n)
            IN  [years |-> <<year>> \o rest.years, next |-> rest.next]

\* updateCourse's updater
updateCourseUpdate(prevYears, yearId, semesterId, courseId, field, value) ==
  [i \in 1..Len(prevYears) |->
     IF prevYears[i].id = yearId
     THEN [prevYears[i] EXCEPT !.semesters =
             [j \in 1..Len(@) |->
                IF @[j].id = semesterId
                THEN [@[j] EXCEPT !.courses =
                        [k \in 1..Len(@) |->
                           IF @[k].id = courseId
                           THEN [@[k] EXCEPT ![field] = value]
                           ELSE @[k]]]
                ELSE @[j]]]
     ELSE prevYears[i]]

\* a removeCourse that looks for the course in every semester of the year
removeCourseUpdate_AnySemester(prevYears, yearId, semesterId, courseId) ==
  LET Keep(course) == course.id # courseId IN
  [i \in 1..Len(prevYears) |->
     IF prevYears[i].id = yearId
     THEN [prevYears[i] EXCEPT !.semesters =
             [j \in 1..Len(@) |-> [@[j] EXCEPT !.courses = SelectSeq(@, Keep)]]]
     ELSE prevYears[i]]

\* removeCourse's updater
removeCourseUpdate(prevYears, yearId, semesterId, courseId) ==
  LET Keep(course) == course.id # courseId IN
  [i \in 1..Len(prevYears) |->
     IF prevYears[i].id = yearId
     THEN [prevYears[i] EXCEPT !.semesters =
             [j \in 1..Len(@) |->
                IF @[j].id = semesterId
                THEN [@[j] EXCEPT !.courses = SelectSeq(@, Keep)]
                ELSE @[j]]]
     ELSE prevYears[i]]

\* the value the credits input passes to updateCourse: parseInt(text) || 0
creditsOfInput(text) ==
  LET p == parseInt(text) IN IF p.nan \/ p.val = 0 THEN 0 ELSE p.val

\* toggleYearExpansion's updater
toggleUpdate(prev, yearId) ==
  IF yearId \in prev THEN prev \ {yearId} ELSE prev \cup {yearId}

SemestersOf(yearList) == Concat([i \in 1..Len(yearList) |-> yearList[i].semesters])
CoursesOf(semesterList) ==
  Concat([i \in 1..Len(semesterList) |-> semesterList[i].courses])

calculateSemesterGPA(semester) == calculateGPA(semester.courses)
calculateYearGPA(year) == calculateGPA(CoursesOf(year.semesters))
calculateCumulativeGPA(yearList) == calculateGPA(CoursesOf(SemestersOf(yearList)))

\* the numbers loadData takes the maximum of: parseInt of every id of the
\* tree, year by year.  Every id the application writes starts with a digit.
RECURSIVE IdNumbers(_)
IdNumbers(yearList) ==
  IF yearList = <<>> THEN <<>>
  ELSE LET year == Head(yearList)
           SemNumbers(semester) ==
             <<parseInt(semester.id).val>>
               \o [k \in 1..Len(semester.courses) |-> parseInt(semester.courses[k].id).val]
       IN  <<parseInt(year.id).val>>
             \o Concat([j \in 1..Len(year.semesters) |-> SemNumbers(year.semesters[j])])
             \o IdNumbers(Tail(yearList))

(***************************************************************************)
(* The object stores.  A store is the set of its records; keys are the id  *)
(* fields.                                                                 *)
(***************************************************************************)
\* IDBObjectStore.getAll: every record, in ascending key order
RECURSIVE getAll(_)
getAll(store) ==
  IF store = {} THEN <<>>
  ELSE LET first == CHOOSE r \in store : \A o \in store \ {r} : KeyLess(r.id, o.id)
       IN  <<first>> \o getAll(store \ {first})

\* IDBObjectStore.add of each record of data in turn; a record whose key is
\* already present fails the request, which aborts the transaction.
\* [ok, store]
RECURSIVE addAll(_, _)
addAll(store, data) ==
  IF data = <<>> THEN [ok |-> TRUE, store |-> store]
  ELSE IF \E r \in store : r.id = Head(data).id
  THEN [ok |-> FALSE, store |-> store]
  ELSE addAll(store \cup {Head(data)}, Tail(data))

\* a clear that removes nothing
clearStore_Keep(store) == store

\* IDBObjectStore.clear
clearStore(store) == {}

\* IDBObjectStore.put: replaces the record with the same key
put(store, record) == {r \in store : r.id # record.id} \cup {record}

\* IDBObjectStore.get
get(store, key) == {r \in store : r.id = key}

\* the record saveUserProfile writes: { ...profile, id: 'user' }
profileRecord(profile) == ("id" :> "user") @@ profile

\* IDBDatabase.createObjectStore: fails when the store exists.  [ok, stores]
createObjectStore(res, name) ==
  IF ~res.ok \/ name \in DOMAIN res.stores THEN [ok |-> FALSE, stores |-> res.stores]
  ELSE [ok |-> TRUE, stores |-> (name :> {}) @@ res.stores]

\* an upgrade that creates both stores whatever the old version
upgrade_Unconditional(stores, oldVersion) ==
  createObjectStore(createObjectStore([ok |-> TRUE, stores |-> stores], "years"),
                    "userProfile")

\* the upgrade callback of openDB('gpaCalculator', 3, ...)
upgrade(stores, oldVersion) ==
  LET s0 == [ok |-> TRUE, stores |-> stores]
      s1 == IF oldVersion < 2 THEN createObjectStore(s0, "years") ELSE s0
      s2 == IF oldVersion < 3 THEN createObjectStore(s1, "userProfile") ELSE s1
  IN  s2

DbVersion == 3

emptyProfile == [name |-> <<>>, indexNumber |-> <<>>, university |-> <<>>, photo |-> <<>>]

(***************************************************************************)
(* Bounds of the model and the inputs the user is given.                   *)
(***************************************************************************)
MaxId      == 3   \* no id is generated once the counter has this value
MaxPending == 2   \* the user acts while fewer saves than this are queued
MaxReads   == 2   \* a file is picked while fewer reads than this are pending

NameInputs    == {<<"M">>}
GradeInputs   == {"B+"}
CreditsInputs == {<<>>}
ProfileFields == {"name", "university"}
ProfileInputs == {<<"x">>}

\* the courses of the trees whose GPA figures are rendered under SpecGPA
MaxLen     == 2
GPAGrades  == {"A", "A-", "B+", "D", "F"}
GPACredits == {-1, 0, 1, 3, 4}

\* SpecYears: the id range and the length of the Year list
MaxYearId == 10
MaxListed == 2

\* SpecEditor: no id is generated once the counter has this value
MaxEditorId == 2

(***************************************************************************)
(* State.                                                                  *)
(***************************************************************************)
VARIABLES
  years,            \* useState<Year[]>
  expandedYears,    \* useState<Set<string>>
  nextId,           \* useRef(1)
  userProfile,      \* useState<UserProfile>
  isEditingProfile, \* useState(false)
  pc,               \* where loadData is: "opening" (awaiting dbPromise),
                    \* "loading" (its transaction queued), "loaded" (both reads
                    \* done), "done"; "failed" when the open was rejected
  loaded,           \* loadData's locals: [years, profile], profile a set of
                    \* zero or one record (undefined or the record)
  db,               \* the database: [version, stores, oldVersion], stores a
                    \* function from the names of the object stores to their
                    \* records, oldVersion the version openDB found (the
                    \* oldVersion its upgrade callback is given)
  yearsQueue,       \* the data of the saveData calls whose transaction has
                    \* not started, in call order
  profileQueue,     \* the saveUserProfile calls whose transaction has not
                    \* run: [profile, by, memory], by the handler that called
                    \* and memory the profile in memory when Save was pressed
  reads,            \* the results of the FileReader reads that have not
                    \* finished, one entry for each reader, in the order
                    \* the reads were started
  shown,            \* the GPA figures of the last render
  early,            \* history: a Year-list operation was issued in this
                    \* session before loadData finished
  prev,             \* history: [clean, years], the Year list at the end of the
                    \* previous session and whether all its saves had completed
  origin,           \* history: [by, memory] of the call that wrote the stored
                    \* profile record
  adopted           \* history: [by, memory] of the call that wrote the profile
                    \* record loadData read in this session

uiVars   == <<years, expandedYears, nextId>>
profVars == <<userProfile, isEditingProfile>>
loadVars == <<pc, loaded>>
dbVars   == <<db, yearsQueue, profileQueue, reads>>
histVars == <<early, prev, origin, adopted>>
vars == <<years, expandedYears, nextId, userProfile, isEditingProfile, pc,
          loaded, db, yearsQueue, profileQueue, reads, shown, early, prev,
          origin, adopted>>

noLoaded  == [years |-> <<>>, profile |-> {}]
noShown   == [rendered |-> FALSE, semesters |-> <<>>, years |-> <<>>, cumulative |-> 0]
noPrev    == [clean |-> FALSE, years |-> <<>>]
noOrigin  == [by |-> "none", memory |-> emptyProfile]

\* the state of a freshly mounted App, before loadData has run
Mounted ==
  /\ years = <<>>
  /\ expandedYears = {}
  /\ nextId = 1
  /\ userProfile = emptyProfile
  /\ isEditingProfile = FALSE
  /\ pc = "opening"
  /\ loaded = noLoaded
  /\ yearsQueue = <<>>
  /\ profileQueue = <<>>
  /\ reads = <<>>
  /\ shown = noShown

Init ==
  /\ Mounted
  /\ db = [version |-> 0, stores |-> <<>>, oldVersion |-> 0]
  /\ early = FALSE
  /\ prev = noPrev
  /\ origin = noOrigin
  /\ adopted = noOrigin

YearIds == {years[i].id : i \in 1..Len(years)}
YearOf(yearId) == years[CHOOSE i \in 1..Len(years) : years[i].id = yearId]
SemesterIds(yearId) == {s.id : s \in Range(YearOf(yearId).semesters)}
SemesterOf(yearId, semesterId) ==
  LET ss == YearOf(yearId).semesters
  IN  ss[CHOOSE j \in 1..Len(ss) : ss[j].id = semesterId]
CourseIds(yearId, semesterId) ==
  {c.id : c \in Range(SemesterOf(yearId, semesterId).courses)}

\* a saveData(data) call: the call is lost when the database failed to open
saveData(queue, data) == IF pc = "failed" THEN queue ELSE Append(queue, data)

\* every Year-list handler: setYears(newYears) and saveData(newYears)
Commit(newYears) ==
  /\ years' = newYears
  /\ yearsQueue' = saveData(yearsQueue, newYears)
  /\ early' = (early \/ pc # "done")
  /\ UNCHANGED <<userProfile, isEditingProfile, pc, loaded, db,
                 profileQueue, reads, shown, prev, origin, adopted>>

(***************************************************************************)
(* Opening the database and loadData.                                      *)
(***************************************************************************)
\* a load that leaves the counter at its initial value
loadedNextId_Unseeded(loadedYears) == 1

\* the counter value loadData sets for a non-empty loaded list
loadedNextId(loadedYears) == MaxOf(IdNumbers(loadedYears)) + 1

\* dbPromise settles
Open ==
  /\ pc = "opening"
  /\ LET up == IF db.version < DbVersion
               THEN upgrade(db.stores, db.version)
               ELSE [ok |-> TRUE, stores |-> db.stores]
     IN  IF up.ok
         THEN /\ db' = [version |-> DbVersion, stores |-> up.stores,
                        oldVersion |-> db.version]
              /\ pc' = "loading"
         ELSE /\ db' = db
              /\ pc' = "failed"
  /\ UNCHANGED <<years, expandedYears, nextId, userProfile, isEditingProfile,
                 loaded, yearsQueue, profileQueue, reads, shown, early, prev,
                 origin, adopted>>

\* loadData's read-only transaction: getAll and get('user').  It is the
\* first transaction of the session, so no save of the session precedes it.
LoadRead ==
  /\ pc = "loading"
  /\ loaded' = [years   |-> getAll(db.stores["years"]),
                profile |-> get(db.stores["userProfile"], "user")]
  /\ pc' = "loaded"
  /\ adopted' = IF get(db.stores["userProfile"], "user") = {} THEN noOrigin ELSE origin
  /\ UNCHANGED <<years, expandedYears, nextId, userProfile, isEditingProfile,
                 db, yearsQueue, profileQueue, reads, shown, early, prev, origin>>

\* the rest of loadData, after the second await
LoadApply ==
  /\ pc = "loaded"
  /\ IF Len(loaded.years) > 0
     THEN /\ years' = loaded.years
          /\ expandedYears' = {loaded.years[i].id : i \in 1..Len(loaded.years)}
          /\ nextId' = loadedNextId(loaded.years)
          /\ yearsQueue' = yearsQueue
     ELSE /\ years' = <<initialYear>>
          /\ expandedYears' = {<<"1">>}
          /\ nextId' = nextId
          /\ yearsQueue' = saveData(yearsQueue, <<initialYear>>)
  /\ userProfile' = IF loaded.profile # {}
                    THEN CHOOSE r \in loaded.profile : TRUE
                    ELSE userProfile
  /\ pc' = "done"
  /\ loaded' = noLoaded
  /\ prev' = noPrev
  /\ UNCHANGED <<isEditingProfile, db, profileQueue, reads, shown, early, origin,
                 adopted>>

(***************************************************************************)
(* The transactions of saveData and saveUserProfile.  Transactions on one  *)
(* object store run one at a time, in the order they were created.         *)
(***************************************************************************)
\* the records of the 'years' store after saveData's transaction on it:
\* store.clear(), then store.add of every year; a failed request aborts the
\* transaction, which leaves the store as it was
saveDataStore(store, data) ==
  LET res == addAll(clearStore(store), data)
  IN  IF res.ok THEN res.store ELSE store

\* saves that run newest first
takeSave_NewestFirst(queue) ==
  [data |-> queue[Len(queue)], rest |-> SubSeq(queue, 1, Len(queue) - 1)]

\* transactions on one store run in the order they were created, which is
\* the order of the saveData calls: the next to run, and the calls left
takeSave(queue) == [data |-> Head(queue), rest |-> Tail(queue)]

\* the transaction of the oldest saveData call runs.  A transaction is
\* atomic and isolated: no other transaction sees the store between its
\* requests, and a page that closes before it completes leaves no trace.
\* It overlaps loadData's transaction and was created after it, so it starts
\* once that one has finished, which is after loadData set what it read.
SaveData ==
  /\ pc = "done"
  /\ yearsQueue # <<>>
  /\ db' = [db EXCEPT !.stores["years"] = saveDataStore(@, takeSave(yearsQueue).data)]
  /\ yearsQueue' = takeSave(yearsQueue).rest
  /\ UNCHANGED <<years, expandedYears, nextId, userProfile, isEditingProfile,
                 pc, loaded, profileQueue, reads, shown, early, prev, origin,
                 adopted>>

\* saveUserProfile: store.put({ ...profile, id: 'user' }), in a transaction
\* that starts once loadData's has finished
ProfilePut ==
  /\ pc = "done"
  /\ profileQueue # <<>>
  /\ db' = [db EXCEPT !.stores["userProfile"] =
                         put(@, profileRecord(Head(profileQueue).profile))]
  /\ origin' = [by |-> Head(profileQueue).by, memory |-> Head(profileQueue).memory]
  /\ profileQueue' = Tail(profileQueue)
  /\ UNCHANGED <<years, expandedYears, nextId, userProfile, isEditingProfile,
                 pc, loaded, yearsQueue, reads, shown, early, prev, adopted>>

\* the page is closed and opened again: the component state is lost and so
\* are the calls whose transaction has not run.  noting: whether the history
\* variable prev records the session that ends.
Restart(noting) ==
  /\ years' = <<>>
  /\ expandedYears' = {}
  /\ nextId' = 1
  /\ userProfile' = emptyProfile
  /\ isEditingProfile' = FALSE
  /\ pc' = "opening"
  /\ loaded' = noLoaded
  /\ yearsQueue' = <<>>
  /\ profileQueue' = <<>>
  /\ reads' = <<>>
  /\ shown' = noShown
  /\ early' = FALSE
  /\ prev' = IF noting
             THEN [clean |-> pc = "done" /\ yearsQueue = <<>>, years |-> years]
             ELSE noPrev
  /\ adopted' = noOrigin
  /\ UNCHANGED <<db, origin>>

(***************************************************************************)
(* The Year-list handlers, and the controls that call them: those of a     *)
(* semester or a course are rendered only while their year is expanded.    *)
(***************************************************************************)
\* the controls of semester semesterId of year yearId, and of that
\* semester's course courseId, are rendered
ShownSemester(yearId, semesterId) ==
  /\ yearId \in YearIds \cap expandedYears
  /\ semesterId \in SemesterIds(yearId)
ShownCourse(yearId, semesterId, courseId) ==
  /\ ShownSemester(yearId, semesterId)
  /\ courseId \in CourseIds(yearId, semesterId)

\* a deleteYear that leaves the expanded set alone
deleteYearExpanded_Keep(prevSet, yearId) == prevSet

\* deleteYear's setExpandedYears updater
deleteYearExpanded(prevSet, yearId) == prevSet \ {yearId}

\* addYear's setExpandedYears updater
addYearExpanded(prevSet, newYearId) == prevSet \cup {newYearId}

addYear ==
  /\ LET u == addYearUpdate(years, nextId)
     IN  /\ Commit(u.years)
         /\ nextId' = u.next
         /\ expandedYears' = addYearExpanded(expandedYears, generateId(nextId).id)

deleteYear(yearId) ==
  /\ Commit(deleteYearUpdate(years, yearId))
  /\ expandedYears' = deleteYearExpanded(expandedYears, yearId)
  /\ nextId' = nextId

addSemester(yearId) ==
  /\ LET u == addSemesterUpdate(years, yearId, nextId)
     IN  /\ Commit(u.years)
         /\ nextId' = u.next
  /\ expandedYears' = expandedYears

deleteSemester(yearId, semesterId) ==
  /\ Commit(deleteSemesterUpdate(years, yearId, semesterId))
  /\ UNCHANGED <<expandedYears, nextId>>

addCourse(yearId, semesterId) ==
  /\ LET u == addCourseUpdate(years, yearId, semesterId, nextId)
     IN  /\ Commit(u.years)
         /\ nextId' = u.next
  /\ expandedYears' = expandedYears

updateCourse(yearId, semesterId, courseId, field, value) ==
  /\ Commit(updateCourseUpdate(years, yearId, semesterId, courseId, field, value))
  /\ UNCHANGED <<expandedYears, nextId>>

removeCourse(yearId, semesterId, courseId) ==
  /\ Commit(removeCourseUpdate(years, yearId, semesterId, courseId))
  /\ UNCHANGED <<expandedYears, nextId>>

toggleYearExpansion(yearId) ==
  /\ expandedYears' = toggleUpdate(expandedYears, yearId)
  /\ UNCHANGED <<years, nextId, userProfile, isEditingProfile, pc, loaded, db,
                 yearsQueue, profileQueue, reads, shown, early, prev,
                 origin, adopted>>

\* the ids in the tree, for the choice of the control the user operates
AllSemesterIds == {s.id : s \in Range(SemestersOf(years))}
AllCourseIds   == {c.id : c \in Range(CoursesOf(SemestersOf(years)))}

\* the name, grade and credits controls of a course
EditCourse ==
  \E y \in YearIds, s \in AllSemesterIds, c \in AllCourseIds :
    /\ ShownCourse(y, s, c)
    /\ \/ \E v \in NameInputs : updateCourse(y, s, c, "name", v)
       \/ \E v \in GradeInputs : updateCourse(y, s, c, "grade", v)
       \/ \E t \in CreditsInputs : updateCourse(y, s, c, "credits", creditsOfInput(t))

(***************************************************************************)
(* The profile editor.                                                     *)
(***************************************************************************)
\* a saveUserProfile(profile) call
saveUserProfile(queue, profile, handler) ==
  IF pc = "failed" THEN queue
  ELSE Append(queue, [profile |-> profile, by |-> handler,
                      memory  |-> IF handler = "save" THEN userProfile ELSE emptyProfile])

\* the edit button, rendered while not editing
EditProfile ==
  /\ ~isEditingProfile
  /\ isEditingProfile' = TRUE
  /\ UNCHANGED <<years, expandedYears, nextId, userProfile, pc, loaded, db,
                 yearsQueue, profileQueue, reads, shown, early, prev,
                 origin, adopted>>

\* handleProfileChange's updater
profileChangeUpdate(prevProfile, field, value) == [prevProfile EXCEPT ![field] = value]

handleProfileChange(field, value) ==
  /\ isEditingProfile
  /\ userProfile' = profileChangeUpdate(userProfile, field, value)
  /\ UNCHANGED <<years, expandedYears, nextId, isEditingProfile, pc, loaded,
                 db, yearsQueue, profileQueue, reads, shown, early, prev,
                 origin, adopted>>

\* a file is picked: reader.readAsDataURL(file) starts
handlePhotoChange(dataUrl) ==
  /\ isEditingProfile
  /\ reads' = Append(reads, dataUrl)
  /\ UNCHANGED <<years, expandedYears, nextId, userProfile, isEditingProfile,
                 pc, loaded, db, yearsQueue, profileQueue, shown, early,
                 prev, origin, adopted>>

\* reader.onloadend
PhotoLoadEnd ==
  \E i \in 1..Len(reads) :
    /\ reads' = SubSeq(reads, 1, i - 1) \o SubSeq(reads, i + 1, Len(reads))
    /\ userProfile' = profileChangeUpdate(userProfile, "photo", reads[i])
    /\ UNCHANGED <<years, expandedYears, nextId, isEditingProfile, pc, loaded,
                   db, yearsQueue, profileQueue, shown, early, prev,
                   origin, adopted>>

\* a save of an empty profile
savedProfile_Empty(profile) == emptyProfile

\* the profile handleSaveProfile passes to saveUserProfile
savedProfile(profile) == profile

\* a delete that saves the profile in memory when Delete was pressed
deletedProfile_Stale(profile) == profile

\* the profile handleDeleteProfile passes to saveUserProfile
deletedProfile(profile) == emptyProfile

handleSaveProfile ==
  /\ isEditingProfile
  /\ Len(profileQueue) < MaxPending
  /\ profileQueue' = saveUserProfile(profileQueue, savedProfile(userProfile), "save")
  /\ isEditingProfile' = FALSE
  /\ UNCHANGED <<years, expandedYears, nextId, userProfile, pc, loaded, db,
                 yearsQueue, reads, shown, early, prev, origin, adopted>>

handleDeleteProfile ==
  /\ isEditingProfile
  /\ Len(profileQueue) < MaxPending
  /\ userProfile' = emptyProfile
  /\ profileQueue' = saveUserProfile(profileQueue, deletedProfile(userProfile), "delete")
  /\ isEditingProfile' = FALSE
  /\ UNCHANGED <<years, expandedYears, nextId, pc, loaded, db, yearsQueue,
                 reads, shown, early, prev, origin, adopted>>

EditField ==
  \E f \in ProfileFields, v \in ProfileInputs : handleProfileChange(f, v)

\* a file is picked while fewer than MaxReads reads are pending
PickPhoto == \E d \in ProfileInputs : (Len(reads) < MaxReads /\ handlePhotoChange(d))

(***************************************************************************)
(* Rendering: the GPA figures shown for the expanded years and the         *)
(* cumulative figure.                                                      *)
(***************************************************************************)
Render ==
  /\ shown' = [rendered   |-> TRUE,
               semesters  |-> [i \in 1..Len(years) |->
                                 IF years[i].id \in expandedYears
                                 THEN [j \in 1..Len(years[i].semesters) |->
                                         calculateSemesterGPA(years[i].semesters[j])]
                                 ELSE <<>>],
               years      |-> [i \in 1..Len(years) |->
                                 IF years[i].id \in expandedYears
                                 THEN <<calculateYearGPA(years[i])>>
                                 ELSE <<>>],
               cumulative |-> calculateCumulativeGPA(years)]
  /\ UNCHANGED <<years, expandedYears, nextId, userProfile, isEditingProfile,
                 pc, loaded, db, yearsQueue, profileQueue, reads, early,
                 prev, origin, adopted>>

(***************************************************************************)
(* Specifications.                                                         *)
(*   Spec         the Year list: its handlers, loadData, saveData, restart *)
(*   SpecProfile  the profile editor, loadData, both saves, restart        *)
(*   SpecYears    addYear and deleteYear alone, with a longer id range     *)
(*   SpecGPA      rendering the GPA figures of a tree of given courses     *)
(* The Year-list handlers and the profile handlers touch disjoint state;   *)
(* loadData, which touches both, is in every specification that restarts.  *)
(***************************************************************************)
\* the user operates the Year list once loadData has finished and while
\* fewer than MaxPending saves are queued
CanAct == pc = "done" /\ Len(yearsQueue) < MaxPending

\* the id counter is below its bound
CanMint == nextId < MaxId

Next ==
  \/ Open
  \/ LoadRead
  \/ LoadApply
  \/ SaveData
  \/ Restart(FALSE)
  \/ (CanAct /\ CanMint /\ addYear)
  \/ \E y \in YearIds : (CanAct /\ deleteYear(y))
  \/ \E y \in YearIds :
       (CanAct /\ CanMint /\ y \in expandedYears /\ addSemester(y))
  \/ \E y \in YearIds, s \in AllSemesterIds :
       (CanAct /\ ShownSemester(y, s) /\ deleteSemester(y, s))
  \/ \E y \in YearIds, s \in AllSemesterIds :
       (CanAct /\ CanMint /\ ShownSemester(y, s) /\ addCourse(y, s))
  \/ (CanAct /\ EditCourse)
  \/ \E y \in YearIds, s \in AllSemesterIds, c \in AllCourseIds :
       (CanAct /\ ShownCourse(y, s, c) /\ removeCourse(y, s, c))
  \/ \E y \in YearIds : toggleYearExpansion(y)

Spec == Init /\ [][Next]_vars

NextProfile ==
  \/ Open
  \/ LoadRead
  \/ LoadApply
  \/ SaveData
  \/ ProfilePut
  \/ Restart(FALSE)
  \/ EditProfile
  \/ EditField
  \/ PickPhoto
  \/ PhotoLoadEnd
  \/ handleSaveProfile
  \/ handleDeleteProfile

SpecProfile == Init /\ [][NextProfile]_vars

NextYears ==
  \/ Open
  \/ LoadRead
  \/ LoadApply
  \/ SaveData
  \/ Restart(TRUE)
  \/ (CanAct /\ nextId < MaxYearId /\ Len(years) < MaxListed /\ addYear)
  \/ \E y \in YearIds : (CanAct /\ deleteYear(y))

SpecYears == Init /\ [][NextYears]_vars

\* the tree of a course list: the seeded year, the first course in its first
\* semester and the others in its second, with the ids addCourse gives them
CourseOfInput(input, i) ==
  [id |-> toString(i + 1), name |-> <<>>, grade |-> input[1], credits |-> input[2]]

TreeOf(inputs) ==
  LET cs == [i \in 1..Len(inputs) |-> CourseOfInput(inputs[i], i)]
  IN  [initialYear EXCEPT
         !.semesters[1].courses = SubSeq(cs, 1, IF Len(cs) > 0 THEN 1 ELSE 0),
         !.semesters[2].courses = SubSeq(cs, 2, Len(cs))]

InputLists == UNION {[1..n -> GPAGrades \X GPACredits] : n \in 0..MaxLen}

InitGPA ==
  \E inputs \in InputLists :
    /\ years = <<TreeOf(inputs)>>
    /\ expandedYears = {<<"1">>}
    /\ nextId = Len(inputs) + 1
    /\ userProfile = emptyProfile
    /\ isEditingProfile = FALSE
    /\ pc = "done"
    /\ loaded = noLoaded
    /\ db = [version |-> DbVersion,
             stores  |-> [years |-> {TreeOf(inputs)}, userProfile |-> {}],
             oldVersion |-> 0]
    /\ yearsQueue = <<>>
    /\ profileQueue = <<>>
    /\ reads = <<>>
    /\ shown = noShown
    /\ early = FALSE
    /\ prev = noPrev
    /\ origin = noOrigin
    /\ adopted = noOrigin

NextGPA == Render

SpecGPA == InitGPA /\ [][NextGPA]_vars

(***************************************************************************)
(* Properties of the GPA figures (SpecGPA).  The exact mean of a course    *)
(* list is TenthsOf/(10 * CreditsOf); figures are in hundredths.           *)
(***************************************************************************)
RECURSIVE TenthsOf(_)
TenthsOf(courses) ==
  IF courses = <<>> THEN 0
  ELSE GradeTenths[Head(courses).grade] * Head(courses).credits + TenthsOf(Tail(courses))

RECURSIVE CreditsOf(_)
CreditsOf(courses) ==
  IF courses = <<>> THEN 0 ELSE Head(courses).credits + CreditsOf(Tail(courses))

\* the mean rounded to hundredths: the nearest hundredth, and for a mean
\* half way between two hundredths what rounding half up, half to even or
\* half away from zero gives
RoundedMean(courses) ==
  LET n    == 10 * TenthsOf(courses)
      c    == CreditsOf(courses)
      low  == n \div c
      rest == n % c
  IN  IF 2 * rest < c THEN {low}
      ELSE IF 2 * rest > c THEN {low + 1}
      ELSE {low + 1,
            IF low % 2 = 0 THEN low ELSE low + 1,
            IF n < 0 THEN low ELSE low + 1}

\* the figures of the last render, each with the course list it is the GPA of
Figures ==
  {[courses |-> years[i].semesters[j].courses, gpa |-> shown.semesters[i][j]] :
     <<i, j>> \in {<<i, j>> \in (1..Len(years)) \X (1..2 + MaxLen) :
                     /\ years[i].id \in expandedYears
                     /\ j <= Len(years[i].semesters)}}
  \cup {[courses |-> CoursesOf(years[i].semesters), gpa |-> shown.years[i][1]] :
          i \in {i \in 1..Len(years) : years[i].id \in expandedYears}}
  \cup {[courses |-> CoursesOf(SemestersOf(years)), gpa |-> shown.cumulative]}

\* C1 (as claimed): every figure of a course list with total credits > 0 is
\* the credit-weighted mean of the grade points rounded to two decimals.
C1_RoundedMean ==
  shown.rendered =>
    \A f \in Figures : CreditsOf(f.courses) > 0 => f.gpa \in RoundedMean(f.courses)

\* C2: the figure of the empty course list, and of every course list whose
\* credits add up to 0, is exactly 0, at the semester, year and cumulative
\* level.
C2_ZeroWithoutCredits ==
  shown.rendered =>
    \A f \in Figures : CreditsOf(f.courses) = 0 => f.gpa = 0

C2_Witness ==
  /\ shown.rendered
  /\ \E f \in Figures :
       /\ Len(f.courses) = 2
       /\ f.courses[1].credits # 0
       /\ f.courses[1].grade # "F"
       /\ CreditsOf(f.courses) = 0
       /\ f.gpa = 0
  /\ \E f \in Figures : f.gpa # 0

IsExampleList(courses) ==
  /\ Len(courses) = 2
  /\ courses[1].grade = "A"  /\ courses[1].credits = 3
  /\ courses[2].grade = "B+" /\ courses[2].credits = 4
  /\ GradeTenths["A"] = 40 /\ GradeTenths["B+"] = 33

\* C3 (as claimed): the GPA of [{A, 3}, {B+, 4}] is 3.63.
C3_Example363 ==
  shown.rendered =>
    \A f \in Figures : IsExampleList(f.courses) => f.gpa = 363

\* C3 (amended): the GPA of [{A, 3}, {B+, 4}] is 3.6, which is
\* (4.0 * 3 + 3.3 * 4) / 7 = 25.2 / 7.
C3_Example360 ==
  shown.rendered =>
    \A f \in Figures : IsExampleList(f.courses) => f.gpa = 360

C3_Witness ==
  /\ shown.rendered
  /\ IsExampleList(CoursesOf(SemestersOf(years)))
  /\ shown.cumulative = 360

(***************************************************************************)
(* Properties of the Year list and its persistence (Spec, SpecYears).      *)
(***************************************************************************)
\* every id of a Year list: each year's, then its semesters' and courses'
RECURSIVE TreeIds(_)
TreeIds(yearList) ==
  IF yearList = <<>> THEN <<>>
  ELSE LET year == Head(yearList)
           SemIds(semester) ==
             <<semester.id>> \o [k \in 1..Len(semester.courses) |-> semester.courses[k].id]
       IN  <<year.id>>
             \o Concat([j \in 1..Len(year.semesters) |-> SemIds(year.semesters[j])])
             \o TreeIds(Tail(yearList))

YearsStore == db.stores["years"]

\* C4: the ids of all Years, Semesters and Courses in memory are pairwise
\* distinct, and once loadData has finished no id in the tree has a numeric
\* value above the counter, so that the next id generateId issues (the
\* counter plus one) is greater than every id loaded or issued before.
C4_UniqueIds ==
  /\ Cardinality(Range(TreeIds(years))) = Len(TreeIds(years))
  /\ pc = "done" => \A id \in Range(TreeIds(years)) : parseInt(id).val <= nextId

C4_Witness ==
  /\ pc = "done"
  /\ nextId = MaxId
  /\ toString(MaxId) \in Range(TreeIds(years))
  /\ Len(TreeIds(years)) >= 5
  /\ YearsStore = Range(years)

\* a step in which the transaction of the oldest saveData call completes
SaveStep ==
  /\ yearsQueue # <<>>
  /\ pc' = pc
  /\ Len(yearsQueue') = Len(yearsQueue) - 1

\* C5: when the transaction of saveData(L) completes, the 'years' store
\* holds exactly the Year records of L: all of them, and nothing an earlier
\* save wrote.
C5_FullReplace ==
  [][SaveStep =>
       /\ YearsStore' = Range(Head(yearsQueue))
       /\ Cardinality(YearsStore') = Len(Head(yearsQueue))]_vars

C5_Witness ==
  /\ pc = "done"
  /\ yearsQueue = <<>>
  /\ years # <<>>
  /\ <<"1">> \notin YearIds
  /\ YearsStore = Range(years)

\* C6 (as claimed, for a session that ends with a non-empty list; an empty
\* list is seeded anew by loadData): if a session ends after all its saves
\* have completed, the Year list in memory after the next load is the Year
\* list the session ended with, in the same order.
C6_SameYearsSameOrder ==
  [][(pc = "loaded" /\ pc' = "done" /\ prev.clean /\ prev.years # <<>>)
       => years' = prev.years]_vars

\* C7: once loadData has finished, whenever no issued save is still queued
\* the 'years' store holds the Year list in memory.
C7_StoreFollowsMemory ==
  (pc = "done" /\ ~early /\ yearsQueue = <<>>) =>
    /\ YearsStore = Range(years)
    /\ Cardinality(YearsStore) = Len(years)

C7_Witness ==
  /\ pc = "done"
  /\ yearsQueue = <<>>
  /\ \E c \in Range(CoursesOf(SemestersOf(years))) : c.grade = "B+" /\ c.credits = 0
  /\ YearsStore = Range(years)

\* C10: deleteYear(y) removes Year y, and with it every Semester and Course
\* under it, from the list in memory and y from the expanded set; the other
\* Years stay as they are and in their order, and so do the other members
\* of the expanded set.
C10_DeleteYearFrame ==
  [][\A y \in YearIds :
       deleteYear(y) =>
         /\ \E i \in 1..Len(years) :
              /\ years[i].id = y
              /\ years' = SubSeq(years, 1, i - 1) \o SubSeq(years, i + 1, Len(years))
              /\ Range(TreeIds(<<years[i]>>)) \cap Range(TreeIds(years')) = {}
         /\ y \notin expandedYears'
         /\ expandedYears' \cup {y} = expandedYears \cup {y}]_vars

C10_Witness ==
  /\ pc = "done"
  /\ <<"1">> \notin YearIds
  /\ Len(years) = 1
  /\ expandedYears = YearIds
  /\ Len(yearsQueue) > 0
  /\ yearsQueue[Len(yearsQueue)] = years

(***************************************************************************)
(* Properties of the profile and its persistence (SpecProfile).            *)
(***************************************************************************)
\* C8 (as claimed): the profile loadData adopts is the profile that was in
\* memory when Save was pressed: the same fields with the same values.
C8_AdoptedIsSaved ==
  [][(pc = "loaded" /\ pc' = "done" /\ adopted.by = "save")
       => userProfile' = adopted.memory]_vars

\* C9: after Delete, the profile loadData adopts has an empty name, index
\* number, university and photo.
C9_DeletedIsEmpty ==
  [][(pc = "loaded" /\ pc' = "done" /\ adopted.by = "delete")
       => /\ userProfile'.name = <<>>
          /\ userProfile'.indexNumber = <<>>
          /\ userProfile'.university = <<>>
          /\ userProfile'.photo = <<>>]_vars

C9_Witness ==
  /\ pc = "done"
  /\ adopted.by = "delete"
  /\ ~isEditingProfile
  /\ userProfile.name = <<>>
  /\ userProfile.photo = <<>>
  /\ userProfile.id = "user"

(***************************************************************************)
(* SpecStartup: a session that starts on a database an earlier session or  *)
(* an earlier release left behind, with the Year list operated before and  *)
(* after loadData finishes.  The upgrade creates 'years' for versions      *)
(* below 2 and 'userProfile' for versions below 3: a database at version 1 *)
(* has neither store, one at version 2 has 'years' alone.                  *)
(***************************************************************************)
\* the records of the 'years' store and of the 'userProfile' store that
\* earlier sessions leave
StoredLists ==
  {{}, {initialYear}, {NewYear(<<"2">>, 0)}, {initialYear, NewYear(<<"2">>, 1)}}

StoredProfiles == {{}, {profileRecord([emptyProfile EXCEPT !.name = <<"x">>])}}

InitStartup ==
  /\ Mounted
  /\ \/ db = [version |-> 0, stores |-> <<>>, oldVersion |-> 0]
     \/ db = [version |-> 1, stores |-> <<>>, oldVersion |-> 0]
     \/ \E list \in StoredLists :
          db = [version |-> 2, stores |-> [years |-> list], oldVersion |-> 0]
     \/ \E list \in StoredLists, profile \in StoredProfiles :
          db = [version |-> DbVersion,
                stores |-> [years |-> list, userProfile |-> profile],
                oldVersion |-> 0]
  /\ early = FALSE
  /\ prev = noPrev
  /\ origin = IF "userProfile" \in DOMAIN db.stores /\ db.stores["userProfile"] # {}
              THEN [by |-> "save", memory |-> [emptyProfile EXCEPT !.name = <<"x">>]]
              ELSE noOrigin
  /\ adopted = noOrigin

\* a handler can be called as soon as the page is rendered
CanCall == pc # "failed" /\ Len(yearsQueue) < MaxPending

NextStartup ==
  \/ Open
  \/ LoadRead
  \/ LoadApply
  \/ SaveData
  \/ (CanCall /\ CanMint /\ addYear)
  \/ \E y \in YearIds : (CanCall /\ deleteYear(y))
  \/ \E y \in YearIds : toggleYearExpansion(y)

\* the step of LoadApply: LoadApply is enabled exactly when pc = "loaded",
\* and it is the one action that takes pc from "loaded" to "done"
LoadApplyStep == pc = "loaded" /\ pc' = "done"

\* a settled promise's continuation runs, and so does a queued transaction
SpecStartup ==
  /\ InitStartup
  /\ [][NextStartup]_vars
  /\ WF_vars(Open)
  /\ WF_vars(LoadRead)
  /\ WF_pc(LoadApplyStep)
  /\ WF_vars(SaveData)

(***************************************************************************)
(* Properties of the handlers of semesters (Spec).                         *)
(***************************************************************************)
\* C11: addSemester(y) on a Year y of the list appends exactly one Semester
\* at the end of y's semesters: it has no courses, its id is the counter's
\* next value, which no Year, Semester or Course has, and its name is
\* "Semester N" with N the number of semesters y had plus 1; the semesters
\* y had and every other Year are unchanged.
C11_AddSemesterAppends ==
  [][\A y \in YearIds :
       addSemester(y) =>
         /\ Len(years') = Len(years)
         /\ nextId' = nextId + 1
         /\ toString(nextId') \notin Range(TreeIds(years))
         /\ \A i \in 1..Len(years) :
              IF years[i].id = y
              THEN /\ years'[i].id = y
                   /\ years'[i].name = years[i].name
                   /\ years'[i].semesters =
                        years[i].semesters \o
                          <<[id |-> toString(nextId'),
                             name |-> <<"S", "e", "m", "e", "s", "t", "e", "r", " ">>
                                        \o toString(Len(years[i].semesters) + 1),
                             courses |-> <<>>]>>
              ELSE years'[i] = years[i]]_vars

C11_Witness ==
  /\ pc = "done"
  /\ nextId = 3
  /\ \E i \in 1..Len(years) :
       /\ Len(years[i].semesters) = 2
       /\ years[i].semesters[1].name = SemesterText \o <<"2">>
       /\ years[i].semesters[2] =
            [id |-> <<"3">>, name |-> SemesterText \o <<"2">>, courses |-> <<>>]

(***************************************************************************)
(* Properties of startup (SpecStartup).                                    *)
(***************************************************************************)
\* one default Year: two Semesters named 'Semester 1' and 'Semester 2',
\* neither with a course
IsDefaultYear(year) ==
  /\ Len(year.semesters) = 2
  /\ year.semesters[1].name = <<"S", "e", "m", "e", "s", "t", "e", "r", " ", "1">>
  /\ year.semesters[2].name = <<"S", "e", "m", "e", "s", "t", "e", "r", " ", "2">>
  /\ year.semesters[1].courses = <<>>
  /\ year.semesters[2].courses = <<>>

\* C12: loadData reads every record of 'years' and the record 'user' of
\* 'userProfile'.  If it read no Year, the list in memory becomes exactly
\* one default Year and a save of that list is issued, which leads to the
\* store holding that Year; if it read some, the list in memory becomes the
\* records read and no save is issued.  A profile record read is adopted;
\* with none the profile in memory stays all-empty.
C12_Startup ==
  /\ [][(pc = "loading" /\ pc' = "loaded") =>
          /\ Range(loaded'.years) = db.stores["years"]
          /\ Len(loaded'.years) = Cardinality(db.stores["years"])
          /\ loaded'.profile = {r \in db.stores["userProfile"] : r.id = "user"}]_vars
  /\ [][(pc = "loaded" /\ pc' = "done") =>
          /\ IF loaded.years = <<>>
             THEN /\ Len(years') = 1
                  /\ IsDefaultYear(years'[1])
                  /\ yearsQueue' = Append(yearsQueue, years')
             ELSE /\ years' = loaded.years
                  /\ yearsQueue' = yearsQueue
          /\ IF loaded.profile = {}
             THEN userProfile' = emptyProfile
             ELSE userProfile' \in loaded.profile]_vars
  /\ (pc = "loaded" /\ loaded.years = <<>>)
       ~> /\ "years" \in DOMAIN db.stores
          /\ Cardinality(db.stores["years"]) = 1
          /\ \A r \in db.stores["years"] : IsDefaultYear(r)

C12_Witness ==
  /\ pc = "done"
  /\ ~early
  /\ Len(years) = 1
  /\ IsDefaultYear(years[1])
  /\ yearsQueue = <<years>>
  /\ db.stores["years"] = {}
  /\ userProfile.name = <<"x">>

\* C15: opening at version 3 a database left at version 0, 1 or 2 (or 3)
\* succeeds with both 'years' and 'userProfile' present; every store the
\* database had keeps its records, and the stores it lacked are created
\* empty.
C15_UpgradeKeepsData ==
  [][(pc = "opening" /\ pc' # "opening") =>
       /\ pc' = "loading"
       /\ db'.version = 3
       /\ DOMAIN db'.stores = {"years", "userProfile"}
       /\ \A n \in DOMAIN db.stores : db'.stores[n] = db.stores[n]
       /\ \A n \in DOMAIN db'.stores \ DOMAIN db.stores : db'.stores[n] = {}]_vars

C15_Witness ==
  /\ pc = "loading"
  /\ db.oldVersion = 2
  /\ db.version = 3
  /\ Cardinality(db.stores["years"]) = 2
  /\ db.stores["userProfile"] = {}

\* C18 (as claimed): when a Year-list operation was issued before loadData
\* finished, then once loadData has finished and no save is queued the
\* 'years' store holds the Year list in memory (and with it the records
\* loadData read from the store).
C18_EarlyMutationKept ==
  (pc = "done" /\ early /\ yearsQueue = <<>>) => db.stores["years"] = Range(years)

\* C20: every member of the expanded set is the id of a Year of the list in
\* memory.
C20_ExpandedArePresent == expandedYears \subseteq YearIds

C20_Witness ==
  /\ pc = "done"
  /\ early
  /\ Len(years) = 2
  /\ expandedYears = {years[2].id}
  /\ Len(yearsQueue) = 2

(***************************************************************************)
(* Properties of the courses (Spec).                                       *)
(***************************************************************************)
\* C17: the grade of every Course, in memory and in the store, is a key of
\* gradePoints, so the lookup gradePoints[course.grade] of calculateGPA
\* finds a point value.
C17_GradeInTable ==
  /\ \A c \in Range(CoursesOf(SemestersOf(years))) : c.grade \in DOMAIN gradePoints
  /\ "years" \in DOMAIN db.stores =>
       \A year \in db.stores["years"] :
         \A c \in Range(CoursesOf(year.semesters)) : c.grade \in DOMAIN gradePoints

C17_Witness ==
  /\ pc = "done"
  /\ db.oldVersion = DbVersion
  /\ \E c, d \in Range(CoursesOf(SemestersOf(years))) : c.grade = "A" /\ d.grade = "B+"

(***************************************************************************)
(* SpecCourses: the handlers of semesters and courses called with any      *)
(* arguments, whether they name a semester or a course of the tree or not, *)
(* and the credits input given any text.                                   *)
(***************************************************************************)
\* texts typed in the credits input: empty, not a number, negative
CreditsTexts == {<<>>, <<"x">>, <<"-", "3">>}

\* an id no Year, Semester or Course has: generateId's first value is "2"
AbsentId == <<"0">>

\* the arguments the handlers are called with: the semester or the course
\* named need not be under the year or the semester named
YearArgs     == YearIds \cup {AbsentId}
SemesterArgs == AllSemesterIds \cup {AbsentId}
CourseArgs   == AllCourseIds \cup {AbsentId}

\* the fields the controls of a course write, and the values they pass
CourseFields == {"name", "grade", "credits"}
CourseInputs(field) ==
  IF field = "name" THEN NameInputs
  ELSE IF field = "grade" THEN GradeInputs
  ELSE {creditsOfInput(t) : t \in CreditsTexts}

\* the user calls a handler once loadData has finished and the save of the
\* call before has completed
CanEdit == pc = "done" /\ yearsQueue = <<>>

NextCourses ==
  \/ Open
  \/ LoadRead
  \/ LoadApply
  \/ SaveData
  \/ \E y \in YearArgs, s \in SemesterArgs :
       (CanEdit /\ CanMint /\ addCourse(y, s))
  \/ \E y \in YearArgs, s \in SemesterArgs :
       (CanEdit /\ deleteSemester(y, s))
  \/ \E y \in YearArgs, s \in SemesterArgs, c \in CourseArgs, f \in CourseFields :
       \E v \in CourseInputs(f) : (CanEdit /\ updateCourse(y, s, c, f, v))
  \/ \E y \in YearArgs, s \in SemesterArgs, c \in CourseArgs :
       (CanEdit /\ removeCourse(y, s, c))

SpecCourses == Init /\ [][NextCourses]_vars

(***************************************************************************)
(* Properties of the handlers of courses (SpecCourses).                    *)
(***************************************************************************)
\* C14 (as claimed): every Course has credits >= 0, whatever was typed in
\* the credits input.
C14_CreditsNonNegative ==
  \A c \in Range(CoursesOf(SemestersOf(years))) : c.credits >= 0

\* the positions of semester s of year y, and of course c in it, in the tree
SemesterAt(y, s) ==
  {<<i, j>> \in (1..Len(years)) \X (1..3) :
     /\ years[i].id = y
     /\ j <= Len(years[i].semesters)
     /\ years[i].semesters[j].id = s}
CourseAt(y, s, c) ==
  {<<i, j, k>> \in (1..Len(years)) \X (1..3) \X (1..MaxId) :
     /\ <<i, j>> \in SemesterAt(y, s)
     /\ k <= Len(years[i].semesters[j].courses)
     /\ years[i].semesters[j].courses[k].id = c}

\* a step that leaves every Year and every Semester in its place, and all
\* but the courses of the semester at <<i, j>> as they were
OnlyCoursesAt(i, j) ==
  /\ Len(years') = Len(years)
  /\ \A a \in 1..Len(years) :
       /\ years'[a].id = years[a].id
       /\ years'[a].name = years[a].name
       /\ Len(years'[a].semesters) = Len(years[a].semesters)
       /\ \A b \in 1..Len(years[a].semesters) :
            /\ years'[a].semesters[b].id = years[a].semesters[b].id
            /\ years'[a].semesters[b].name = years[a].semesters[b].name
            /\ <<a, b>> # <<i, j>> =>
                 years'[a].semesters[b].courses = years[a].semesters[b].courses

\* the sequence without its element at position k
Without(seq, k) == SubSeq(seq, 1, k - 1) \o SubSeq(seq, k + 1, Len(seq))

\* C16: addCourse(y, s) appends one Course (name '', grade 'A', credits 3,
\* an id nothing in the tree has) at the end of semester s of year y;
\* updateCourse(y, s, c, field, value) changes that field of course c alone;
\* removeCourse(y, s, c) removes course c alone; deleteSemester(y, s)
\* removes semester s of year y alone.  Every other Year, Semester and
\* Course, their order and the expanded set are unchanged, and a call whose
\* arguments name no semester (no course) of the tree leaves the tree as it
\* was.
C16_CourseHandlersFrame ==
  [][\A y \in YearArgs, s \in SemesterArgs :
       /\ addCourse(y, s) =>
            /\ expandedYears' = expandedYears
            /\ SemesterAt(y, s) = {} => years' = years
            /\ \A p \in SemesterAt(y, s) :
                 /\ OnlyCoursesAt(p[1], p[2])
                 /\ toString(nextId + 1) \notin Range(TreeIds(years))
                 /\ years'[p[1]].semesters[p[2]].courses =
                      years[p[1]].semesters[p[2]].courses \o
                        <<[id |-> toString(nextId + 1), name |-> <<>>,
                           grade |-> "A", credits |-> 3]>>
       /\ deleteSemester(y, s) =>
            /\ expandedYears' = expandedYears
            /\ SemesterAt(y, s) = {} => years' = years
            /\ \A p \in SemesterAt(y, s) :
                 /\ Len(years') = Len(years)
                 /\ \A a \in 1..Len(years) :
                      IF a = p[1]
                      THEN years'[a] =
                             [id |-> years[a].id, name |-> years[a].name,
                              semesters |-> Without(years[a].semesters, p[2])]
                      ELSE years'[a] = years[a]
       /\ \A c \in CourseArgs :
            /\ removeCourse(y, s, c) =>
                 /\ expandedYears' = expandedYears
                 /\ CourseAt(y, s, c) = {} => years' = years
                 /\ \A p \in CourseAt(y, s, c) :
                      /\ OnlyCoursesAt(p[1], p[2])
                      /\ years'[p[1]].semesters[p[2]].courses =
                           Without(years[p[1]].semesters[p[2]].courses, p[3])
            /\ \A f \in CourseFields : \A v \in CourseInputs(f) :
                 updateCourse(y, s, c, f, v) =>
                   /\ expandedYears' = expandedYears
                   /\ CourseAt(y, s, c) = {} => years' = years
                   /\ \A p \in CourseAt(y, s, c) :
                        LET before == years[p[1]].semesters[p[2]].courses
                            after  == years'[p[1]].semesters[p[2]].courses
                        IN  /\ OnlyCoursesAt(p[1], p[2])
                            /\ Len(after) = Len(before)
                            /\ \A k \in 1..Len(before) :
                                 \A g \in {"id", "name", "grade", "credits"} :
                                   after[k][g] = IF k = p[3] /\ g = f
                                                 THEN v
                                                 ELSE before[k][g]]_vars

C16_Witness ==
  /\ pc = "done"
  /\ Len(years) = 1
  /\ Len(years[1].semesters) = 1
  /\ Len(years[1].semesters[1].courses) = 1
  /\ years[1].semesters[1].courses[1] =
       [id |-> <<"3">>, name |-> <<"M">>, grade |-> "B+", credits |-> 3]
  /\ yearsQueue = <<years>>
  /\ db.stores["years"] = Range(years)

(***************************************************************************)
(* SpecEditor: one session in which the user operates both the profile     *)
(* editor and the Year list.                                               *)
(***************************************************************************)
\* the user operates a control once loadData has finished and the saves of
\* the operations before have completed
Idle == pc = "done" /\ yearsQueue = <<>> /\ profileQueue = <<>>

NextEditor ==
  \/ Open
  \/ LoadRead
  \/ LoadApply
  \/ SaveData
  \/ ProfilePut
  \/ (Idle /\ EditProfile)
  \/ (Idle /\ EditField)
  \/ (Idle /\ PickPhoto)
  \/ PhotoLoadEnd
  \/ (Idle /\ handleSaveProfile)
  \/ (Idle /\ handleDeleteProfile)
  \/ (Idle /\ nextId < MaxEditorId /\ addYear)
  \/ \E y \in YearIds : (Idle /\ deleteYear(y))
  \/ \E y \in YearIds :
       (Idle /\ nextId < MaxEditorId /\ y \in expandedYears /\ addSemester(y))
  \/ \E y \in YearIds, s \in AllSemesterIds :
       (Idle /\ ShownSemester(y, s) /\ deleteSemester(y, s))
  \/ \E y \in YearIds, s \in AllSemesterIds :
       (Idle /\ nextId < MaxEditorId /\ ShownSemester(y, s) /\ addCourse(y, s))
  \/ (Idle /\ EditCourse)
  \/ \E y \in YearIds, s \in AllSemesterIds, c \in AllCourseIds :
       (Idle /\ ShownCourse(y, s, c) /\ removeCourse(y, s, c))
  \/ \E y \in YearIds : toggleYearExpansion(y)

SpecEditor == Init /\ [][NextEditor]_vars

(***************************************************************************)
(* Properties of the profile editor as a state machine (SpecEditor).       *)
(***************************************************************************)
\* the profile of the saveUserProfile call issued last
LastQueued == profileQueue[Len(profileQueue)].profile

\* C13: the editor starts in Viewing.  A step from Viewing to Editing is
\* the edit action: it changes nothing but the mode.  A step from Editing
\* to Viewing is Save, which leaves the profile in memory as it is and
\* issues a save of it, or Delete, which empties the four fields in memory
\* and issues a save of the empty profile; the issued save writes that
\* profile to the store.  Save and Delete end in Viewing and the edit
\* action in Editing.  Every other step (a field edit, a photo pick, a
\* photo read that ends, any operation of the Year list) leaves the mode
\* as it is.
C13_EditorMachine ==
  /\ ~isEditingProfile
  /\ [][/\ (~isEditingProfile /\ isEditingProfile') =>
            UNCHANGED <<years, expandedYears, nextId, userProfile, pc, loaded,
                        db, yearsQueue, profileQueue, reads>>
        /\ (isEditingProfile /\ ~isEditingProfile') =>
            /\ UNCHANGED <<years, expandedYears, nextId, pc, loaded, db,
                           yearsQueue, reads>>
            /\ Len(profileQueue') = Len(profileQueue) + 1
            /\ SubSeq(profileQueue', 1, Len(profileQueue)) = profileQueue
            /\ \/ /\ userProfile' = userProfile
                  /\ LastQueued' = userProfile
               \/ /\ userProfile' = [name |-> <<>>, indexNumber |-> <<>>,
                                     university |-> <<>>, photo |-> <<>>]
                  /\ LastQueued' = userProfile'
        /\ EditProfile => isEditingProfile'
        /\ handleSaveProfile => ~isEditingProfile'
        /\ handleDeleteProfile => ~isEditingProfile'
        /\ (years' # years \/ expandedYears' # expandedYears \/ nextId' # nextId
             \/ yearsQueue' # yearsQueue \/ reads' # reads
             \/ (userProfile' # userProfile /\ userProfile' # emptyProfile))
            => isEditingProfile' = isEditingProfile
        /\ (profileQueue # <<>> /\ profileQueue' = Tail(profileQueue)) =>
            \E r \in db'.stores["userProfile"] :
              \A f \in {"name", "indexNumber", "university", "photo"} :
                r[f] = profileQueue[1].profile[f]]_vars

C13_Witness ==
  /\ isEditingProfile
  /\ origin.by = "save"
  /\ origin.memory.name = <<"x">>
  /\ userProfile.name = <<"x">>
  /\ userProfile.university = <<"x">>
  /\ origin.memory.university = <<>>
  /\ Len(reads) = MaxReads
  /\ nextId = 2
  /\ yearsQueue # <<>>

(***************************************************************************)
(* Properties of the profile in memory and in the store (SpecProfile).     *)
(***************************************************************************)
\* the four fields of the stored profile record, all empty with no record
StoredFields ==
  IF "userProfile" \in DOMAIN db.stores /\ db.stores["userProfile"] # {}
  THEN LET r == CHOOSE r \in db.stores["userProfile"] : r.id = "user"
       IN  [name |-> r.name, indexNumber |-> r.indexNumber,
            university |-> r.university, photo |-> r.photo]
  ELSE [name |-> <<>>, indexNumber |-> <<>>, university |-> <<>>, photo |-> <<>>]

\* C19 (as claimed): while the editor is in Viewing, loadData has finished
\* and no profile save is pending, the name, index number, university and
\* photo in memory are those of the stored profile record (all empty with no
\* record), also when a photo read started in Editing ends after Save or
\* Delete.
C19_ViewingShowsStored ==
  (~isEditingProfile /\ pc = "done" /\ profileQueue = <<>>) =>
    /\ userProfile.name = StoredFields.name
    /\ userProfile.indexNumber = StoredFields.indexNumber
    /\ userProfile.university = StoredFields.university
    /\ userProfile.photo = StoredFields.photo

====
